---- MODULE Spec2Model ----
(***************************************************************************)
(* quickget_configs: the catalog builder.  main spawns one to_os task per  *)
(* registered distro; to_os runs the distro's generate_configs (which      *)
(* fetches pages through capture_page), validates every generated Config   *)
(* with all_valid (one link probe per web URL) and keeps the valid ones.   *)
(* Every fetch and probe goes through the process-wide CLIENT: a global    *)
(* semaphore and a per-host semaphore for sourceforge.net.                 *)
(***************************************************************************)
EXTENDS Integers, Sequences, FiniteSets, TLC

(***************************************************************************)
(* Option<T>                                                               *)
(***************************************************************************)
None == [some |-> FALSE]
Some(v) == [some |-> TRUE, value |-> v]
IsSome(o) == o.some
UnwrapOr(o, d) == IF o.some THEN o.value ELSE d

(***************************************************************************)
(* Bounds of the model                                                     *)
(***************************************************************************)
\* longest Vec<Config> a generator yields
MaxRecords == 2
\* capture_page calls one generate_configs makes
MaxFetches == 1
\* most urls all_valid is handed for one Config
MaxUrls == 3
\* most futures one join_futures! is handed
MaxUnits == 3
\* most items one future resolves to
MaxItems == 2

(***************************************************************************)
(* CLIENT (utils.rs 86-95)                                                 *)
(***************************************************************************)
\* Semaphore::new(150)
GlobalPermits == 150
\* ("sourceforge.net", Semaphore::new(5))
SourceforgePermits == 5
RegisteredHosts == {"sourceforge.net"}
InitUrlPermits == [h \in RegisteredHosts |-> SourceforgePermits]

(***************************************************************************)
(* URLs.  An input string is kept as the pieces Url::parse would find in   *)
(* it: an input without a scheme does not parse, a URL may have no host.   *)
(***************************************************************************)
Input(scheme, host, path) == [scheme |-> scheme, host |-> host, path |-> path]
Web(host, path) == Input("https", host, path)

\* a parser that takes any string for a url
ParseUrlLenient(input) == Some(input)

\* input.parse().ok()
ParseUrl(input) == IF input.scheme = "" THEN None ELSE Some(input)
\* url.host_str()
HostStr(url) == IF url.host = "" THEN None ELSE Some(url.host)
\* a lookup that finds the pool of a registered host for its subdomains too
UrlPermitsGetByDomain(host) ==
    IF host \in RegisteredHosts THEN Some(host)
    ELSE IF host = "downloads.sourceforge.net" THEN Some("sourceforge.net")
    ELSE None

\* CLIENT.url_permits.get(host): the name of the pool, when one is registered
UrlPermitsGet(host) == IF host \in RegisteredHosts THEN Some(host) ELSE None

(***************************************************************************)
(* The transport: what the upstream hosts answer to the n-th GET of a url, *)
(* by its path.  A fixed answer per url and attempt.                       *)
(***************************************************************************)
Response(status, body) == [kind |-> "response", status |-> status, body |-> body]
TransportError == [kind |-> "error", status |-> 0, body |-> ""]

Get(url, n) ==
    CASE url.path = "/ok"        -> Response(200, "text")
      [] url.path = "/empty"     -> Response(200, "")
      [] url.path = "/throttled" -> Response(429, "slow down")
      [] url.path = "/missing"   -> Response(404, "not found")
      [] url.path = "/broken"    -> Response(500, "oops")
      [] url.path = "/timeout"   -> Response(408, "")
      [] url.path = "/flaky"     -> (IF n = 1 THEN TransportError
                                     ELSE IF n = 2 THEN Response(503, "busy")
                                     ELSE Response(200, "text"))
      [] OTHER                   -> TransportError

(***************************************************************************)
(* CLIENT.client (utils.rs 87-91): the reqwest client behind               *)
(* RetryTransientMiddleware with ExponentialBackoff, max_retries 3         *)
(***************************************************************************)
\* build_with_max_retries(3)
max_retries == 3

\* a middleware that takes every failure for a transient one
TransientAnyFailure(response) ==
    response.kind = "error" \/ ~(response.status >= 200 /\ response.status <= 299)

\* what RetryTransientMiddleware retries: a connection error, a server error,
\* 408 Request Timeout, 429 Too Many Requests
Transient(response) ==
    \/ response.kind = "error"
    \/ response.status >= 500 /\ response.status <= 599
    \/ response.status = 408
    \/ response.status = 429

\* a policy that allows a single retry
ShouldRetryOnce(response, attempts) == Transient(response) /\ attempts < 2

\* a policy without a bound
ShouldRetryForever(response, attempts) == Transient(response)

\* the policy's verdict on the answer to attempt number `attempts`: retry while
\* the retries made so far (attempts - 1) are fewer than max_retries
ShouldRetry(response, attempts) == Transient(response) /\ attempts - 1 < max_retries

RECURSIVE SendFrom(_, _)
SendFrom(url, n) ==
    IF ShouldRetry(Get(url, n), n) THEN SendFrom(url, n + 1) ELSE Get(url, n)

\* what CLIENT.client.get(url).send().await ends with
Send(url) == SendFrom(url, 1)

\* StatusCode::is_success
IsSuccess(status) == status >= 200 /\ status <= 299
TOO_MANY_REQUESTS == 429

(***************************************************************************)
(* Config, Source, Disk (quickget_core data structures, as store_data.rs   *)
(* reads them)                                                             *)
(***************************************************************************)
WebSource(input) == [kind |-> "Web", url |-> input]
DockerSource(image) == [kind |-> "Docker", url |-> image]
Disk(source) == [source |-> source]

Config(release, edition, iso, img, disk_images) ==
    [release |-> release, edition |-> edition, iso |-> iso, img |-> img,
     fixed_iso |-> None, floppy |-> None, disk_images |-> disk_images]

RECURSIVE Concat(_)
\* Iterator::flatten over a sequence of sequences
Concat(seqs) == IF seqs = <<>> THEN <<>> ELSE Head(seqs) \o Concat(Tail(seqs))

\* Iterator::flatten over Option<Vec<_>>: a None contributes nothing
OptItems(o) == IF o.some THEN o.value ELSE <<>>

\* a filter that lets every source through
filter_all_sources(sources) == [k \in 1..Len(sources) |-> sources[k].url]

\* store_data.rs 71-79
filter_web_sources(sources) ==
    LET web == SelectSeq(sources, LAMBDA x : x.kind = "Web")
    IN  [k \in 1..Len(web) |-> web[k].url]

\* store_data.rs 81-86
extract_disk_urls(disks) ==
    LET ds == OptItems(disks)
    IN  filter_web_sources([k \in 1..Len(ds) |-> ds[k].source])

\* store_data.rs 34-38: the urls to_os hands to all_valid for one Config
RecordUrls(r) ==
    Concat([k \in 1..4 |->
              filter_web_sources(OptItems(<<r.iso, r.img, r.fixed_iso, r.floppy>>[k]))])
      \o extract_disk_urls(r.disk_images)

(***************************************************************************)
(* The registered distros (main.rs 14-53), two of them, and what their     *)
(* generators can come back with.                                          *)
(***************************************************************************)
Sources == <<"freebsd", "antix">>
Src == 1..Len(Sources)
\* Distro::NAME
NAME(s) == Sources[s]

FreeBSDConfigs ==
    { Config(Some(<<14, 1>>), Some("vm-image"), None, None,
             Some(<<Disk(WebSource(Web("download.freebsd.org", "/throttled")))>>)),
      Config(Some(<<13>>), Some("dvd1"),
             Some(<<WebSource(Web("download.freebsd.org", "/missing"))>>), None, None) }

AntixConfigs ==
    { Config(Some(<<23>>), Some("full"),
             Some(<<WebSource(Web("sourceforge.net", "/ok"))>>), None, None),
      Config(Some(<<22>>), None,
             Some(<<DockerSource("antix/core")>>), None, None) }

Configs(s) == IF NAME(s) = "freebsd" THEN FreeBSDConfigs ELSE AntixConfigs

SeqsUpTo(S, n) == UNION { [1..m -> S] : m \in 0..n }

\* Option<Vec<Config>>: what generate_configs may yield
GeneratorOutputs(s) == {None} \cup { Some(l) : l \in SeqsUpTo(Configs(s), MaxRecords) }

\* the pages a generator asks capture_page for
PageInputs(s) ==
    IF NAME(s) = "freebsd"
    THEN { Web("download.freebsd.org", p) :
             p \in {"/ok", "/empty", "/throttled", "/missing", "/broken", "/down",
                    "/timeout", "/flaky"} }
    ELSE { Web("sourceforge.net", "/ok"), Web("sourceforge.net", "/throttled"),
           Input("", "", "projects/antix-linux"), Input("", "sourceforge.net", "/ok"),
           Input("data", "", "text") }

(***************************************************************************)
(* State                                                                   *)
(***************************************************************************)
VARIABLES
    mainPc,       \* main: "spawn" (spawn_distros!), "join" (join_all.await), "done"
    handles,      \* the JoinHandles pushed so far, in spawn order
    task,         \* per distro, its to_os task: "unspawned", "generate", "validate", "returned"
    fetches,      \* per distro, the capture_page calls its generator has made
    fetch,        \* per distro, the capture_page call of its generator
    releases,     \* per distro, what generate_configs yielded
    probes,       \* per distro, per Config, per url: the link probe of all_valid
    os,           \* per distro, what to_os returned: Option<OS>
    distros,      \* the catalog main serialises
    semaphore,    \* CLIENT.semaphore: permits available
    url_permits,  \* CLIENT.url_permits: permits available, per registered host
    crowd,        \* fetches and probes of distros not followed one by one, counted by
                  \* the permits they hold (url_permit only, both, permit only), and
                  \* what send() ended with for the last of them to return
    units,        \* join_futures!: the futures handed to it, each with the output it
                  \* resolves to and whether it has resolved
    flatten_amount, \* join_futures!: the literal after the variable, 0 when absent
    finished,     \* join_futures!: the units in the order they resolved
    joined        \* join_futures!: the value of the expression, once join_all returned

\* the variables of a join_futures! call
joinVars == <<units, flatten_amount, finished, joined>>

vars == <<mainPc, handles, task, fetches, fetch, releases, probes, os, distros,
          semaphore, url_permits, crowd, joinVars>>

progVars == <<mainPc, handles, task, fetches, fetch, releases, probes, os, distros,
              joinVars>>

\* a capture_page call or a link probe: where it is, the permits it holds, the GETs
\* it has issued, the answers the middleware retried, its outcome
Call(input, pc, output) ==
    [input |-> input, pc |-> pc, url_permit |-> None, permit |-> FALSE,
     attempts |-> 0, retried |-> <<>>, response |-> None, output |-> output]
Idle == Call(Input("", "", ""), "idle", None)

\* utils.rs 14-15 and 40-41: the pool a call must first be admitted to, if any;
\* None also for an input that does not parse or has no host
Parsed(input) == IsSome(ParseUrl(input)) /\ IsSome(HostStr(ParseUrl(input).value))

\* a lookup that finds no pool for any host
HostPoolNone(input) == None

HostPool(input) == UrlPermitsGet(HostStr(ParseUrl(input).value).value)

\* a call as it stands when first polled: one whose input does not parse, or has no
\* host, has already returned None through the `?`
NewCall(input) ==
    IF Parsed(input) THEN Call(input, "start", None) ELSE Call(input, "done", None)

\* no join_futures! call is followed
NoJoin ==
    /\ units = <<>>
    /\ flatten_amount = 0
    /\ finished = <<>>
    /\ joined = None

Init ==
    /\ mainPc = "spawn"
    /\ handles = <<>>
    /\ task = [s \in Src |-> "unspawned"]
    /\ fetches = [s \in Src |-> 0]
    /\ fetch = [s \in Src |-> Idle]
    /\ releases = [s \in Src |-> None]
    /\ probes = [s \in Src |-> <<>>]
    /\ os = [s \in Src |-> None]
    /\ distros = <<>>
    /\ semaphore = GlobalPermits
    /\ url_permits = InitUrlPermits
    /\ crowd = [url_permit |-> 0, both |-> 0, permit |-> 0, last |-> None]
    /\ NoJoin

(***************************************************************************)
(* tokio::sync::Semaphore, as CLIENT uses it                               *)
(***************************************************************************)
\* an acquire that never waits
AvailableAlways(permits) == TRUE

\* acquire().await completes only when a permit is available
Available(permits) == permits > 0
Acquire(permits) == permits - 1

\* a permit that is kept when send() fails
DropPermitUnlessError(permits, response) ==
    IF response.kind = "error" THEN permits ELSE permits + 1

\* a permit that is never handed back
DropPermitLeaked(permits, response) == permits

\* the permit is dropped when the call returns: by drop(permit) on the path to
\* the end of the function, by the early return of a `?` on the others
DropPermit(permits, response) == permits + 1

\* a url_permit that is never handed back
DropUrlPermitLeaked(pools, url_permit, response) == pools

\* the same for the url_permit, which only a call to a registered host holds
DropUrlPermit(pools, url_permit, response) ==
    IF url_permit.some
    THEN [pools EXCEPT ![url_permit.value] = DropPermit(@, response)]
    ELSE pools

(***************************************************************************)
(* What a call returns                                                     *)
(***************************************************************************)
\* a capture_page that hands back an empty body
CapturePageOutputAnyBody(response) ==
    IF response.kind = "error" THEN None
    ELSE IF response.status >= 200 /\ response.status <= 299
         THEN Some(response.body) ELSE None

\* utils.rs 21-35: capture_page's Option<String> for what send() ended with
CapturePageOutput(response) ==
    IF response.kind = "error" THEN None
    ELSE IF IsSuccess(response.status)
         THEN (IF response.body = "" THEN None ELSE Some(response.body))
         ELSE None

\* a verdict that takes 429 for a failure, as capture_page does
SuccessfulOnly(status) == IsSuccess(status)

\* utils.rs 57: a probe's verdict on a status
Successful(status) == IsSuccess(status) \/ status = TOO_MANY_REQUESTS

\* utils.rs 47-66: a probe's Option<bool> for what send() ended with
ProbeOutput(response) ==
    IF response.kind = "error" THEN None ELSE Some(Successful(response.status))

\* any() where all() is meant
AnyValid(ps) == \E j \in 1..Len(ps) : UnwrapOr(ps[j].output, TRUE)

\* a verdict that counts a probe without an answer as a failure
AllValidStrict(ps) == \A j \in 1..Len(ps) : UnwrapOr(ps[j].output, FALSE)

\* utils.rs 68: join_futures!(futures).into_iter().all(|r| r.unwrap_or(true))
AllValid(ps) == \A j \in 1..Len(ps) : UnwrapOr(ps[j].output, TRUE)

\* a join that gives up on the futures left once one url is found invalid
AllDoneOrInvalid(pss) ==
    \/ \A i \in 1..Len(pss) : \A j \in 1..Len(pss[i]) : pss[i][j].pc = "done"
    \/ \E i \in 1..Len(pss) : \E j \in 1..Len(pss[i]) : pss[i][j].output = Some(FALSE)

\* a join that resolves only once every url has been found valid
AllDoneAndValid(pss) ==
    \A i \in 1..Len(pss) : \A j \in 1..Len(pss[i]) :
        pss[i][j].pc = "done" /\ pss[i][j].output # Some(FALSE)

\* a join that awaits the all_valid of the first Config only
AllDoneFirstRecord(pss) ==
    pss # <<>> => \A j \in 1..Len(pss[1]) : pss[1][j].pc = "done"

\* utils.rs 68 and store_data.rs 41: join_all returns when every future has resolved
AllDone(pss) == \A i \in 1..Len(pss) : \A j \in 1..Len(pss[i]) : pss[i][j].pc = "done"

\* store_data.rs 41: the verdicts join_futures! collects, one per Config, in order
Results(pss) == [i \in 1..Len(pss) |-> AllValid(pss[i])]

RECURSIVE RetainWhileValid(_, _)
\* a filter that stops at the first invalid Config
RetainWhileValid(configs, results) ==
    IF configs = <<>> \/ results = <<>> \/ ~Head(results) THEN <<>>
    ELSE <<Head(configs)>> \o RetainWhileValid(Tail(configs), Tail(results))

RECURSIVE Retain(_, _)
\* store_data.rs 42-59: zip the Configs with the verdicts, keep the valid ones
Retain(configs, results) ==
    IF configs = <<>> \/ results = <<>> THEN <<>>
    ELSE (IF Head(results) THEN <<Head(configs)>> ELSE <<>>)
           \o Retain(Tail(configs), Tail(results))

\* store_data.rs 61-67
ToOsResult(s, configs, pss) ==
    Some([name |-> NAME(s), releases |-> Retain(configs, Results(pss))])

(***************************************************************************)
(* distro_sort (main.rs 78-102)                                            *)
(***************************************************************************)
\* the strings of the model in str::cmp order
StrOrder == <<"antix", "dvd1", "freebsd", "full", "vm-image">>
StrRank(x) == CHOOSE k \in 1..Len(StrOrder) : StrOrder[k] = x
CmpNat(a, b) == IF a < b THEN -1 ELSE IF a > b THEN 1 ELSE 0
CmpStr(a, b) == CmpNat(StrRank(a), StrRank(b))
Then(c, d) == IF c # 0 THEN c ELSE d

RECURSIVE CmpVersion(_, _)
\* str::cmp of two dotted releases, component by component; a prefix is the smaller
CmpVersion(a, b) ==
    IF a = <<>> /\ b = <<>> THEN 0
    ELSE IF a = <<>> THEN -1
    ELSE IF b = <<>> THEN 1
    ELSE Then(CmpNat(Head(a), Head(b)), CmpVersion(Tail(a), Tail(b)))

\* Option::cmp: None is the smaller
CmpOptVersion(a, b) ==
    IF a.some /\ b.some THEN CmpVersion(a.value, b.value)
    ELSE CmpNat(IF a.some THEN 1 ELSE 0, IF b.some THEN 1 ELSE 0)
CmpOptStr(a, b) ==
    IF a.some /\ b.some THEN CmpStr(a.value, b.value)
    ELSE CmpNat(IF a.some THEN 1 ELSE 0, IF b.some THEN 1 ELSE 0)

RECURSIVE NumericCmp(_, _)
\* main.rs 85-95: the first components that differ decide, the larger first
NumericCmp(a, b) ==
    IF a = <<>> \/ b = <<>> THEN 0
    ELSE Then(CmpNat(Head(b), Head(a)), NumericCmp(Tail(a), Tail(b)))

\* main.rs 82-98
CmpRelease(a, b) ==
    Then(IF a.release.some /\ b.release.some
         THEN NumericCmp(a.release.value, b.release.value) ELSE 0,
         Then(CmpOptVersion(b.release, a.release), CmpOptStr(a.edition, b.edition)))

\* the orderings of a sequence
Orderings(seq) ==
    { [k \in 1..Len(seq) |-> seq[f[k]]] :
        f \in { g \in [1..Len(seq) -> 1..Len(seq)] :
                  \A x, y \in 1..Len(seq) : x # y => g[x] # g[y] } }

CmpName(a, b) == CmpStr(a.name, b.name)

\* main.rs 80: sort_unstable_by on the names; equal elements in any order
SortedByName(list) ==
    { p \in Orderings(list) : \A x, y \in 1..Len(p) : x < y => CmpName(p[x], p[y]) <= 0 }

\* main.rs 82: sort_unstable_by on the releases; equal elements in any order
SortedByRelease(list) ==
    { p \in Orderings(list) : \A x, y \in 1..Len(p) : x < y => CmpRelease(p[x], p[y]) <= 0 }

RECURSIVE SortReleases(_)
\* main.rs 81-99: every entry's releases sorted
SortReleases(list) ==
    IF list = <<>> THEN { <<>> }
    ELSE { <<[name |-> Head(list).name, releases |-> r]>> \o rest :
             r \in SortedByRelease(Head(list).releases),
             rest \in SortReleases(Tail(list)) }

\* main.rs 79-101
distro_sort(list) == UNION { SortReleases(byName) : byName \in SortedByName(list) }

\* main.rs 55-60: the joined Option<OS> of every handle, flattened
Flatten(opts) ==
    LET present == SelectSeq(opts, LAMBDA o : o.some)
    IN  [k \in 1..Len(present) |-> present[k].value]

(***************************************************************************)
(* main (main.rs 12-72)                                                    *)
(***************************************************************************)
\* spawn_distros!: spawn(<$distro>::to_os()), handles.push(handle), distro by distro
Spawn ==
    /\ mainPc = "spawn"
    /\ LET s == Len(handles) + 1
       IN  /\ handles' = Append(handles, s)
           /\ task' = [task EXCEPT ![s] = "generate"]
           /\ mainPc' = IF s = Len(Sources) THEN "join" ELSE "spawn"
    /\ UNCHANGED <<fetches, fetch, releases, probes, os, distros,
                   semaphore, url_permits, crowd, joinVars>>

\* a join that resolves with the first handle that finishes
AnyHandleJoined == \E k \in DOMAIN handles : task[handles[k]] = "returned"

\* main.rs 55-57: join_all(futures).await resolves once every handle has
HandlesJoined == \A s \in Src : task[s] = "returned"

\* join_all(futures).await, flatten, distro_sort
Join ==
    /\ mainPc = "join"
    /\ HandlesJoined
    /\ distros' \in distro_sort(Flatten([k \in 1..Len(handles) |-> os[handles[k]]]))
    /\ mainPc' = "done"
    /\ UNCHANGED <<handles, task, fetches, fetch, releases, probes, os,
                   semaphore, url_permits, crowd, joinVars>>

(***************************************************************************)
(* capture_page (utils.rs 13-36), called by a distro's generate_configs    *)
(***************************************************************************)
CapturePage(s, input) ==
    /\ task[s] = "generate"
    /\ fetch[s].pc \in {"idle", "done"}
    /\ fetches[s] < MaxFetches
    /\ fetches' = [fetches EXCEPT ![s] = @ + 1]
    /\ fetch' = [fetch EXCEPT ![s] = NewCall(input)]
    /\ UNCHANGED <<mainPc, handles, task, releases, probes, os, distros,
                   semaphore, url_permits, crowd, joinVars>>

\* utils.rs 15-18
CapturePageAcquireUrlPermit(s) ==
    LET c == fetch[s] IN
    /\ c.pc = "start"
    /\ HostPool(c.input).some
    /\ Available(url_permits[HostPool(c.input).value])
    /\ url_permits' = [url_permits EXCEPT ![HostPool(c.input).value] = Acquire(@)]
    /\ fetch' = [fetch EXCEPT ![s] = [c EXCEPT !.pc = "url_permit",
                                               !.url_permit = HostPool(c.input)]]
    /\ UNCHANGED <<mainPc, handles, task, fetches, releases, probes, os, distros,
                   semaphore, crowd, joinVars>>

\* utils.rs 20-21: the permit, then the request goes out
CapturePageAcquirePermit(s) ==
    LET c == fetch[s] IN
    /\ \/ c.pc = "start" /\ ~HostPool(c.input).some
       \/ c.pc = "url_permit"
    /\ Available(semaphore)
    /\ semaphore' = Acquire(semaphore)
    /\ fetch' = [fetch EXCEPT ![s] = [c EXCEPT !.pc = "send", !.permit = TRUE,
                                               !.attempts = 1]]
    /\ UNCHANGED <<mainPc, handles, task, fetches, releases, probes, os, distros,
                   url_permits, crowd, joinVars>>

\* utils.rs 21, inside send(): the middleware takes the answer for transient, backs
\* off and issues the GET again; the call keeps its permits
CapturePageRetry(s) ==
    LET c == fetch[s]
        response == Get(ParseUrl(c.input).value, c.attempts)
    IN
    /\ c.pc = "send"
    /\ ShouldRetry(response, c.attempts)
    /\ fetch' = [fetch EXCEPT ![s] = [c EXCEPT !.attempts = @ + 1,
                                               !.retried = Append(@, response)]]
    /\ UNCHANGED <<mainPc, handles, task, fetches, releases, probes, os, distros,
                   semaphore, url_permits, crowd, joinVars>>

\* utils.rs 21-35: send() ends; the output, and the permits go back
CapturePageResponse(s) ==
    LET c == fetch[s]
        response == Get(ParseUrl(c.input).value, c.attempts)
    IN
    /\ c.pc = "send"
    /\ ~ShouldRetry(response, c.attempts)
    /\ semaphore' = DropPermit(semaphore, response)
    /\ url_permits' = DropUrlPermit(url_permits, c.url_permit, response)
    /\ fetch' = [fetch EXCEPT ![s] = [c EXCEPT !.pc = "done", !.permit = FALSE,
                                               !.url_permit = None,
                                               !.response = Some(response),
                                               !.output = CapturePageOutput(response)]]
    /\ UNCHANGED <<mainPc, handles, task, fetches, releases, probes, os, distros, crowd, joinVars>>

(***************************************************************************)
(* to_os (store_data.rs 23-68)                                             *)
(***************************************************************************)
\* store_data.rs 33-41: one all_valid per Config, one probe per url of it
NewProbes(configs) ==
    [i \in 1..Len(configs) |->
        [j \in 1..Len(RecordUrls(configs[i])) |-> NewCall(RecordUrls(configs[i])[j])]]

\* store_data.rs 41-67: once every all_valid has returned, to_os returns the entry
ToOsReturns(s, configs, pss) ==
    IF AllDone(pss)
    THEN /\ os' = [os EXCEPT ![s] = ToOsResult(s, configs, pss)]
         /\ task' = [task EXCEPT ![s] = "returned"]
    ELSE UNCHANGED <<os, task>>

\* a check that forgets releases.is_empty()
NoReleasesIfNone(out) == ~out.some

\* store_data.rs 25-32: nothing to validate, to_os returns None
NoReleases(out) == ~out.some \/ out.value = <<>>

\* store_data.rs 25-41: generate_configs yields `out`
GenerateConfigs(s, out) ==
    /\ task[s] = "generate"
    /\ fetch[s].pc \in {"idle", "done"}
    /\ releases' = [releases EXCEPT ![s] = out]
    /\ fetch' = [fetch EXCEPT ![s] = Idle]
    /\ fetches' = [fetches EXCEPT ![s] = 0]
    /\ IF NoReleases(out)
       THEN /\ os' = [os EXCEPT ![s] = None]
            /\ task' = [task EXCEPT ![s] = "returned"]
            /\ UNCHANGED probes
       ELSE /\ probes' = [probes EXCEPT ![s] = NewProbes(out.value)]
            /\ IF AllDone(NewProbes(out.value))
               THEN ToOsReturns(s, out.value, NewProbes(out.value))
               ELSE /\ task' = [task EXCEPT ![s] = "validate"]
                    /\ UNCHANGED os
    /\ UNCHANGED <<mainPc, handles, distros, semaphore, url_permits, crowd, joinVars>>

(***************************************************************************)
(* all_valid's probe of one url (utils.rs 39-67)                           *)
(***************************************************************************)
Probing(s, i, j) ==
    /\ task[s] = "validate"
    /\ i \in 1..Len(probes[s])
    /\ j \in 1..Len(probes[s][i])

\* utils.rs 41-44
ProbeAcquireUrlPermit(s, i, j) ==
    /\ Probing(s, i, j)
    /\ LET c == probes[s][i][j] IN
       /\ c.pc = "start"
       /\ HostPool(c.input).some
       /\ Available(url_permits[HostPool(c.input).value])
       /\ url_permits' = [url_permits EXCEPT ![HostPool(c.input).value] = Acquire(@)]
       /\ probes' = [probes EXCEPT ![s][i][j] = [c EXCEPT !.pc = "url_permit",
                                                          !.url_permit = HostPool(c.input)]]
    /\ UNCHANGED <<mainPc, handles, task, fetches, fetch, releases, os, distros,
                   semaphore, crowd, joinVars>>

\* utils.rs 45-51: the permit, then the request goes out
ProbeAcquirePermit(s, i, j) ==
    /\ Probing(s, i, j)
    /\ LET c == probes[s][i][j] IN
       /\ \/ c.pc = "start" /\ ~HostPool(c.input).some
          \/ c.pc = "url_permit"
       /\ Available(semaphore)
       /\ semaphore' = Acquire(semaphore)
       /\ probes' = [probes EXCEPT ![s][i][j] = [c EXCEPT !.pc = "send", !.permit = TRUE,
                                                          !.attempts = 1]]
    /\ UNCHANGED <<mainPc, handles, task, fetches, fetch, releases, os, distros,
                   url_permits, crowd, joinVars>>

\* utils.rs 47-51, inside send(): the middleware retries the GET
ProbeRetry(s, i, j) ==
    /\ Probing(s, i, j)
    /\ LET c == probes[s][i][j]
           response == Get(ParseUrl(c.input).value, c.attempts)
       IN
       /\ c.pc = "send"
       /\ ShouldRetry(response, c.attempts)
       /\ probes' = [probes EXCEPT ![s][i][j] = [c EXCEPT !.attempts = @ + 1,
                                                          !.retried = Append(@, response)]]
    /\ UNCHANGED <<mainPc, handles, task, fetches, fetch, releases, os, distros,
                   semaphore, url_permits, crowd, joinVars>>

\* utils.rs 47-68: send() ends; the probe's verdict, and the permits go back.  The
\* all_valid of a Config returns with its last probe, to_os with its last all_valid.
ProbeResponse(s, i, j) ==
    /\ Probing(s, i, j)
    /\ LET c == probes[s][i][j]
           response == Get(ParseUrl(c.input).value, c.attempts)
           pss == [probes[s] EXCEPT ![i][j] = [c EXCEPT !.pc = "done", !.permit = FALSE,
                                                        !.url_permit = None,
                                                        !.response = Some(response),
                                                        !.output = ProbeOutput(response)]]
       IN
       /\ c.pc = "send"
       /\ ~ShouldRetry(response, c.attempts)
       /\ semaphore' = DropPermit(semaphore, response)
       /\ url_permits' = DropUrlPermit(url_permits, c.url_permit, response)
       /\ probes' = [probes EXCEPT ![s] = pss]
       /\ ToOsReturns(s, releases[s].value, pss)
    /\ UNCHANGED <<mainPc, handles, fetches, fetch, releases, distros, crowd, joinVars>>

(***************************************************************************)
(* The program                                                             *)
(***************************************************************************)
Next ==
    \/ Spawn
    \/ Join
    \/ \E s \in Src : \E input \in PageInputs(s) : CapturePage(s, input)
    \/ \E s \in Src : CapturePageAcquireUrlPermit(s)
    \/ \E s \in Src : CapturePageAcquirePermit(s)
    \/ \E s \in Src : CapturePageRetry(s)
    \/ \E s \in Src : CapturePageResponse(s)
    \/ \E s \in Src : \E out \in GeneratorOutputs(s) : GenerateConfigs(s, out)
    \/ \E s \in Src : \E i \in 1..MaxRecords : \E j \in 1..MaxUrls :
          \/ ProbeAcquireUrlPermit(s, i, j)
          \/ ProbeAcquirePermit(s, i, j)
          \/ ProbeRetry(s, i, j)
          \/ ProbeResponse(s, i, j)

Spec == Init /\ [][Next]_vars

\* #[tokio::main] (main.rs 11-12): the runtime keeps polling whatever task can
\* take a step, main or spawned, and every request gets its answer
Fairness == WF_vars(Next)

FairSpec == Init /\ [][Next]_vars /\ Fairness

(***************************************************************************)
(* The pools under load: the fetches and probes of the other distros, any  *)
(* number of them, each through the same code (utils.rs 15-35 and 41-66),  *)
(* counted by the permits they hold.                                       *)
(***************************************************************************)
\* what send() can end with
Responses ==
    { Send(Web("sourceforge.net", p)) :
        p \in {"/ok", "/empty", "/throttled", "/missing", "/broken", "/down",
               "/timeout", "/flaky"} }

\* utils.rs 15-16, 41-42: a call to a registered host is admitted to its pool
CrowdAcquireUrlPermit(h) ==
    /\ Available(url_permits[h])
    /\ url_permits' = [url_permits EXCEPT ![h] = Acquire(@)]
    /\ crowd' = [crowd EXCEPT !.url_permit = @ + 1]
    /\ UNCHANGED <<progVars, semaphore>>

\* utils.rs 20, 45: a call holding its url_permit gets the permit
CrowdAcquireSecondPermit ==
    /\ crowd.url_permit > 0
    /\ Available(semaphore)
    /\ semaphore' = Acquire(semaphore)
    /\ crowd' = [crowd EXCEPT !.url_permit = @ - 1, !.both = @ + 1]
    /\ UNCHANGED <<progVars, url_permits>>

\* utils.rs 17, 20 and 43, 45: a call to any other host gets the permit
CrowdAcquirePermit ==
    /\ Available(semaphore)
    /\ semaphore' = Acquire(semaphore)
    /\ crowd' = [crowd EXCEPT !.permit = @ + 1]
    /\ UNCHANGED <<progVars, url_permits>>

\* utils.rs 21-35, 47-66: send() ends for a call to the registered host h
CrowdHostResponse(h, response) ==
    /\ crowd.both > 0
    /\ semaphore' = DropPermit(semaphore, response)
    /\ url_permits' = DropUrlPermit(url_permits, Some(h), response)
    /\ crowd' = [crowd EXCEPT !.both = @ - 1, !.last = Some(response)]
    /\ UNCHANGED progVars

\* utils.rs 21-35, 47-66: send() ends for a call to any other host
CrowdResponse(response) ==
    /\ crowd.permit > 0
    /\ semaphore' = DropPermit(semaphore, response)
    /\ url_permits' = DropUrlPermit(url_permits, None, response)
    /\ crowd' = [crowd EXCEPT !.permit = @ - 1, !.last = Some(response)]
    /\ UNCHANGED progVars

NextPool ==
    \/ \E h \in RegisteredHosts : CrowdAcquireUrlPermit(h)
    \/ CrowdAcquireSecondPermit
    \/ CrowdAcquirePermit
    \/ \E h \in RegisteredHosts : \E response \in Responses : CrowdHostResponse(h, response)
    \/ \E response \in Responses : CrowdResponse(response)

PoolSpec == Init /\ [][NextPool]_vars

(***************************************************************************)
(* One all_valid call on any list of urls: freebsd's generator has yielded *)
(* a single Config with these urls as its iso, antix's has yielded None.   *)
(***************************************************************************)
ProbeInputs ==
    { Web("download.freebsd.org", p) :
        p \in {"/ok", "/throttled", "/missing", "/broken", "/down", "/flaky"} }
      \cup { Web("sourceforge.net", "/ok"), Input("", "", "releases/14.1") }

IsoConfig(urls) ==
    Config(Some(<<14>>), None, Some([k \in 1..Len(urls) |-> WebSource(urls[k])]), None, None)

\* freebsd's to_os has got `configs` from its generator and called all_valid
\* for each of them
Validating(configs) ==
    LET pss == NewProbes(configs) IN
    /\ mainPc = "join"
    /\ handles = [k \in Src |-> k]
    /\ fetches = [s \in Src |-> 0]
    /\ fetch = [s \in Src |-> Idle]
    /\ releases = [s \in Src |-> IF s = 1 THEN Some(configs) ELSE None]
    /\ probes = [s \in Src |-> IF s = 1 THEN pss ELSE <<>>]
    /\ task = [s \in Src |-> IF s = 1 /\ ~AllDone(pss) THEN "validate" ELSE "returned"]
    /\ os = [s \in Src |-> IF s = 1 /\ AllDone(pss) THEN ToOsResult(s, configs, pss) ELSE None]
    /\ distros = <<>>
    /\ semaphore = GlobalPermits
    /\ url_permits = InitUrlPermits
    /\ crowd = [url_permit |-> 0, both |-> 0, permit |-> 0, last |-> None]
    /\ NoJoin

InitValid == \E urls \in SeqsUpTo(ProbeInputs, MaxUrls) : Validating(<<IsoConfig(urls)>>)

NextValid ==
    \/ Join
    \/ \E s \in Src : \E i \in 1..MaxRecords : \E j \in 1..MaxUrls :
          \/ ProbeAcquireUrlPermit(s, i, j)
          \/ ProbeAcquirePermit(s, i, j)
          \/ ProbeRetry(s, i, j)
          \/ ProbeResponse(s, i, j)

ValidSpec == InitValid /\ [][NextValid]_vars

(***************************************************************************)
(* The urls of one Config (store_data.rs 33-40): to_os validates a single  *)
(* Config with sources of either kind in any of its five lists.            *)
(***************************************************************************)
\* a container image, by the string that names it
Image == Input("", "", "antix/core")

\* what each list of the Config may hold
IsoLists ==
    { None, Some(<<WebSource(Web("download.freebsd.org", "/ok"))>>),
      Some(<<WebSource(Web("download.freebsd.org", "/missing"))>>),
      Some(<<DockerSource(Image)>>) }
ImgLists ==
    { None, Some(<<WebSource(Web("sourceforge.net", "/ok"))>>),
      Some(<<DockerSource(Image), WebSource(Web("sourceforge.net", "/ok"))>>),
      Some(<<WebSource(Web("sourceforge.net", "/ok")),
             WebSource(Web("downloads.sourceforge.net", "/ok"))>>) }
\* a url without a scheme does not parse; a data: url parses and has no host
FixedIsoLists ==
    { None, Some(<<WebSource(Web("download.freebsd.org", "/empty"))>>),
      Some(<<WebSource(Input("", "", "releases/14.1"))>>) }
FloppyLists ==
    { None, Some(<<WebSource(Web("download.freebsd.org", "/throttled"))>>),
      Some(<<WebSource(Input("data", "", "text"))>>) }
DiskLists ==
    { None, Some(<<Disk(WebSource(Web("download.freebsd.org", "/flaky")))>>),
      Some(<<Disk(DockerSource(Image))>>) }

RecordConfigs ==
    { [Config(Some(<<14>>), None, iso, img, disk_images)
          EXCEPT !.fixed_iso = fixed_iso, !.floppy = floppy] :
        iso \in IsoLists, img \in ImgLists, fixed_iso \in FixedIsoLists,
        floppy \in FloppyLists, disk_images \in DiskLists }

InitRecord ==
    \E r \in RecordConfigs : Len(RecordUrls(r)) <= MaxUrls /\ Validating(<<r>>)

RecordSpec == InitRecord /\ [][NextValid]_vars

(***************************************************************************)
(* capture_page under load: antix's generator calls capture_page while the *)
(* calls of the other distros, any number of them, go through the pools.   *)
(* freebsd's generator has yielded None.  Every request sent is answered,  *)
(* and the semaphores hand their permits out in the order they were asked  *)
(* for (tokio's Semaphore is fair), so a call that waits for a permit that *)
(* keeps coming back gets it.                                              *)
(***************************************************************************)
InitLoad ==
    /\ mainPc = "join"
    /\ handles = [k \in Src |-> k]
    /\ task = [s \in Src |-> IF NAME(s) = "antix" THEN "generate" ELSE "returned"]
    /\ fetches = [s \in Src |-> 0]
    /\ fetch = [s \in Src |-> Idle]
    /\ releases = [s \in Src |-> None]
    /\ probes = [s \in Src |-> <<>>]
    /\ os = [s \in Src |-> None]
    /\ distros = <<>>
    /\ semaphore = GlobalPermits
    /\ url_permits = InitUrlPermits
    /\ crowd = [url_permit |-> 0, both |-> 0, permit |-> 0, last |-> None]
    /\ NoJoin

\* what send() ends with for the calls of the crowd
LoadResponses == { Send(Web("sourceforge.net", "/ok")) }

CrowdHostResponds ==
    \E h \in RegisteredHosts : \E response \in LoadResponses : CrowdHostResponse(h, response)
CrowdResponds == \E response \in LoadResponses : CrowdResponse(response)

NextLoad ==
    \/ \E s \in Src : \E input \in PageInputs(s) : CapturePage(s, input)
    \/ \E s \in Src : CapturePageAcquireUrlPermit(s)
    \/ \E s \in Src : CapturePageAcquirePermit(s)
    \/ \E s \in Src : CapturePageRetry(s)
    \/ \E s \in Src : CapturePageResponse(s)
    \/ \E h \in RegisteredHosts : CrowdAcquireUrlPermit(h)
    \/ CrowdAcquireSecondPermit
    \/ CrowdAcquirePermit
    \/ CrowdHostResponds
    \/ CrowdResponds

LoadFairness ==
    /\ \A s \in Src : /\ SF_vars(CapturePageAcquireUrlPermit(s))
                       /\ SF_vars(CapturePageAcquirePermit(s))
                       /\ WF_vars(CapturePageRetry(s))
                       /\ WF_vars(CapturePageResponse(s))
    /\ SF_vars(CrowdAcquireSecondPermit)
    /\ WF_vars(CrowdHostResponds)
    /\ WF_vars(CrowdResponds)

LoadSpec == InitLoad /\ [][NextLoad]_vars /\ LoadFairness

(***************************************************************************)
(* join_futures! (join_futures/src/lib.rs 4-30) on the futures of a        *)
(* generator, which resolve to Option<Vec<T>> (debian.rs 33-72): the call  *)
(* awaits join_all of them and flattens its Vec flatten_amount times.      *)
(* antix's generator is running, freebsd's has yielded None.               *)
(***************************************************************************)
\* the k-th item future i found
Item(i, k) == [unit |-> i, k |-> k]

\* what future i resolves to: None when n < 0, otherwise Some of its n items
UnitOutput(i, n) == IF n < 0 THEN None ELSE Some([k \in 1..n |-> Item(i, k)])

\* the flatten amounts Vec<Option<Vec<T>>> admits
FlattenAmounts == 0..2

InitJoin ==
    \E m \in 0..MaxUnits : \E found \in [1..m -> -1..MaxItems] :
      /\ mainPc = "join"
      /\ handles = [k \in Src |-> k]
      /\ task = [s \in Src |-> IF NAME(s) = "antix" THEN "generate" ELSE "returned"]
      /\ fetches = [s \in Src |-> 0]
      /\ fetch = [s \in Src |-> Idle]
      /\ releases = [s \in Src |-> None]
      /\ probes = [s \in Src |-> <<>>]
      /\ os = [s \in Src |-> None]
      /\ distros = <<>>
      /\ semaphore = GlobalPermits
      /\ url_permits = InitUrlPermits
      /\ crowd = [url_permit |-> 0, both |-> 0, permit |-> 0, last |-> None]
      /\ units = [i \in 1..m |-> [output |-> UnitOutput(i, found[i]),
                                  started |-> FALSE, done |-> FALSE]]
      /\ flatten_amount \in FlattenAmounts
      /\ finished = <<>>
      /\ joined = None

\* a join that hands the outputs over in the order the futures resolved
JoinAllAsResolved(us, order) == [k \in 1..Len(order) |-> us[order[k]].output]

\* lib.rs 22: join_all(variable).await, the outputs in the order of the futures
JoinAll(us, order) == [i \in 1..Len(us) |-> us[i].output]

\* lib.rs 22: join_all is ready when every future has resolved
AllResolved(us) == \A i \in 1..Len(us) : us[i].done

\* a macro that flattens once whatever the amount
FlattenOnce(outputs, amount) == IF amount = 0 THEN outputs ELSE Flatten(outputs)

\* lib.rs 23-28: .into_iter(), .flatten() flatten_amount times, .collect(): the
\* first flatten is over the Options, the second over the Vecs
FlattenTimes(outputs, amount) ==
    IF amount = 0 THEN outputs
    ELSE IF amount = 1 THEN Flatten(outputs)
    ELSE Concat(Flatten(outputs))

\* a join that starts its futures one by one
PolledNext(us) ==
    LET next == CHOOSE i \in 1..Len(us) :
                    ~us[i].started /\ \A k \in 1..(i - 1) : us[k].started
    IN  [us EXCEPT ![next].started = TRUE]

\* lib.rs 22: join_all polls every future it was given when it is first polled
Polled(us) == [i \in 1..Len(us) |-> [us[i] EXCEPT !.started = TRUE]]

\* lib.rs 22: the macro's join_all is awaited, the futures start
JoinAllPolls ==
    /\ joined = None
    /\ \E i \in 1..Len(units) : ~units[i].started
    /\ units' = Polled(units)
    /\ UNCHANGED <<mainPc, handles, task, fetches, fetch, releases, probes, os, distros,
                   semaphore, url_permits, crowd, flatten_amount, finished, joined>>

\* one of the futures resolves
UnitResolves(i) ==
    /\ i \in 1..Len(units)
    /\ units[i].started
    /\ ~units[i].done
    /\ joined = None
    /\ units' = [units EXCEPT ![i].done = TRUE]
    /\ finished' = Append(finished, i)
    /\ UNCHANGED <<mainPc, handles, task, fetches, fetch, releases, probes, os, distros,
                   semaphore, url_permits, crowd, flatten_amount, joined>>

\* lib.rs 22-29: join_all returns, the macro's expression has its value
JoinFuturesReturns ==
    /\ joined = None
    /\ AllResolved(units)
    /\ joined' = Some(FlattenTimes(JoinAll(units, finished), flatten_amount))
    /\ UNCHANGED <<mainPc, handles, task, fetches, fetch, releases, probes, os, distros,
                   semaphore, url_permits, crowd, units, flatten_amount, finished>>

NextJoin ==
    \/ JoinAllPolls
    \/ \E i \in 1..MaxUnits : UnitResolves(i)
    \/ JoinFuturesReturns

JoinSpec == InitJoin /\ [][NextJoin]_vars

(***************************************************************************)
(* Properties                                                              *)
(***************************************************************************)
(***************************************************************************)
(* all_valid under load (utils.rs 38-69): a to_os validates a Config with  *)
(* a url on sourceforge.net while the calls of the other tasks, the crowd, *)
(* to that host and to other hosts, take and return permits of the same    *)
(* two pools.  The crowd's requests get their answers, and the semaphores  *)
(* hand their permits out in the order they were asked for.                *)
(***************************************************************************)
ContendUrls == <<Web("sourceforge.net", "/flaky")>>

InitContend == Validating(<<IsoConfig(ContendUrls)>>)

NextContend ==
    \/ \E s \in Src : \E i \in 1..MaxRecords : \E j \in 1..MaxUrls :
          \/ ProbeAcquireUrlPermit(s, i, j)
          \/ ProbeAcquirePermit(s, i, j)
          \/ ProbeRetry(s, i, j)
          \/ ProbeResponse(s, i, j)
    \/ \E h \in RegisteredHosts : CrowdAcquireUrlPermit(h)
    \/ CrowdAcquireSecondPermit
    \/ CrowdAcquirePermit
    \/ CrowdHostResponds
    \/ CrowdResponds

ContendFairness ==
    /\ \A j \in 1..Len(ContendUrls) : /\ SF_vars(ProbeAcquireUrlPermit(1, 1, j))
                                      /\ SF_vars(ProbeAcquirePermit(1, 1, j))
                                      /\ WF_vars(ProbeRetry(1, 1, j))
                                      /\ WF_vars(ProbeResponse(1, 1, j))
    /\ SF_vars(CrowdAcquireSecondPermit)
    /\ WF_vars(CrowdHostResponds)
    /\ WF_vars(CrowdResponds)

ContendSpec == InitContend /\ [][NextContend]_vars /\ ContendFairness

ProbeIds ==
    UNION { UNION { { <<s, i, j>> : j \in DOMAIN probes[s][i] } : i \in DOMAIN probes[s] }
              : s \in Src }
ProbeAt(id) == probes[id[1]][id[2]][id[3]]

\* the calls between acquire and release of the global permit
HoldingPermit ==
    Cardinality({ s \in Src : fetch[s].permit })
      + Cardinality({ id \in ProbeIds : ProbeAt(id).permit })
      + crowd.both + crowd.permit

\* the calls between acquire and release of the permit of host h
HoldingUrlPermit(h) ==
    Cardinality({ s \in Src : fetch[s].url_permit = Some(h) })
      + Cardinality({ id \in ProbeIds : ProbeAt(id).url_permit = Some(h) })
      + crowd.url_permit + crowd.both

\* C1: at every moment the fetches and probes holding the global permit are at
\* most 150, and those holding the permit of sourceforge.net at most 5,
\* however many calls are running.
C1_InFlightWithinCapacity ==
    /\ HoldingPermit <= GlobalPermits
    /\ \A h \in RegisteredHosts : HoldingUrlPermit(h) <= SourceforgePermits

\* both pools exhausted: every further call is kept waiting
C1_Witness ==
    /\ HoldingPermit = GlobalPermits
    /\ HoldingUrlPermit("sourceforge.net") = SourceforgePermits
    /\ crowd.both > 0 /\ crowd.permit > 0

\* C2: every permit acquired is released exactly once on every exit path: a
\* pool's available permits plus the permits held are its capacity, they never
\* exceed the capacity, and with no call in flight every pool is full again.
C2_PermitsReleasedOnce ==
    /\ semaphore + HoldingPermit = GlobalPermits
    /\ \A h \in RegisteredHosts : url_permits[h] + HoldingUrlPermit(h) = SourceforgePermits
    /\ semaphore <= GlobalPermits
    /\ \A h \in RegisteredHosts : url_permits[h] <= SourceforgePermits
    /\ (HoldingPermit = 0 /\ \A h \in RegisteredHosts : HoldingUrlPermit(h) = 0)
         => semaphore = GlobalPermits /\ url_permits = InitUrlPermits

\* every call has returned, the last of them through a transport error
C2_Witness ==
    /\ crowd.last = Some(TransportError)
    /\ HoldingPermit = 0
    /\ HoldingUrlPermit("sourceforge.net") = 0
    /\ semaphore = GlobalPermits
    /\ url_permits = InitUrlPermits

\* what the probe of a call ended with
GotStatus(c) == c.pc = "done" /\ c.response.some /\ c.response.value.kind = "response"
GotTransportError(c) == c.pc = "done" /\ c.response = Some(TransportError)
\* a status that is neither a success status nor 429 Too Many Requests
BadStatus(status) == ~(status \in 200..299 \/ status = 429)

\* the Configs of distro s that its emitted entry retains, by position
Retained(s, i) == \E k \in DOMAIN os[s].value.releases :
                      os[s].value.releases[k] = releases[s].value[i]

\* C3: a probe that ends in a transport error makes its url invalid: all_valid
\* returns false for the Config and the entry does not retain it.
C3_TransportErrorInvalidates ==
    \A s \in Src :
        (task[s] = "returned" /\ os[s].some) =>
            \A i \in DOMAIN probes[s] :
                (\E j \in DOMAIN probes[s][i] : GotTransportError(probes[s][i][j]))
                    => ~Results(probes[s])[i] /\ ~Retained(s, i)

\* C4: to_os never returns an entry without releases, and no such entry is in
\* the catalog.
C4_NoEmptyEntry ==
    /\ \A s \in Src : os[s].some => os[s].value.releases # <<>>
    /\ \A k \in DOMAIN distros : distros[k].releases # <<>>

\* C5: every web url of every retained Config received a probe response with a
\* success status or 429.  Stated for the urls that parse and have a host: the
\* others are C29's.
C5_RetainedUrlsConfirmed ==
    \A s \in Src :
        os[s].some =>
            \A i \in DOMAIN probes[s] :
                Retained(s, i) =>
                    \A j \in DOMAIN probes[s][i] :
                        Parsed(probes[s][i][j].input) =>
                            /\ GotStatus(probes[s][i][j])
                            /\ ~BadStatus(probes[s][i][j].response.value.status)

\* C6: a probe that receives a response is valid iff the status is a success
\* status or 429, invalid on every other status; capture_page returns none on
\* the 429 that makes a probe valid.
C6_ClassificationBy429 ==
    /\ \A id \in ProbeIds :
          GotStatus(ProbeAt(id)) =>
              ProbeAt(id).output = Some(~BadStatus(ProbeAt(id).response.value.status))
    /\ \A s \in Src :
          (GotStatus(fetch[s]) /\ fetch[s].response.value.status = 429)
              => fetch[s].output = None

\* a probe found valid on 429, a probe found invalid on 404, and a capture_page
\* that returned none on 429
C6_Witness ==
    /\ \E id \in ProbeIds : /\ GotStatus(ProbeAt(id))
                            /\ ProbeAt(id).response.value.status = 429
                            /\ ProbeAt(id).output = Some(TRUE)
    /\ \E id \in ProbeIds : /\ GotStatus(ProbeAt(id))
                            /\ ProbeAt(id).response.value.status = 404
                            /\ ProbeAt(id).output = Some(FALSE)
    /\ \E s \in Src : /\ GotStatus(fetch[s])
                      /\ fetch[s].response.value.status = 429
                      /\ fetch[s].output = None

\* the probe of a url classified it invalid
ClassifiedInvalid(c) == GotStatus(c) /\ BadStatus(c.response.value.status)

\* C7: all_valid returns true iff no url of the list was classified invalid (an
\* empty list gives true, one invalid url among valid ones gives false), and the
\* entry retains as many Configs as all_valid calls returned true.  A url
\* whose probe ends without a status is classified by C3 and C29, not here.
C7_AllValidIsConjunction ==
    \A s \in Src :
        (task[s] = "returned" /\ os[s].some) =>
            /\ \A i \in DOMAIN probes[s] :
                  Results(probes[s])[i]
                      = (\A j \in DOMAIN probes[s][i] : ~ClassifiedInvalid(probes[s][i][j]))
            /\ Len(os[s].value.releases)
                  = Cardinality({ i \in DOMAIN probes[s] :
                        \A j \in DOMAIN probes[s][i] : ~ClassifiedInvalid(probes[s][i][j]) })

\* statuses 200, 429, 404: the record is invalid
C7_Witness ==
    \E s \in Src :
        /\ task[s] = "returned" /\ os[s].some
        /\ Len(probes[s]) = 1 /\ Len(probes[s][1]) = 3
        /\ probes[s][1][1].response = Some(Response(200, "text"))
        /\ probes[s][1][2].response = Some(Response(429, "slow down"))
        /\ probes[s][1][3].response = Some(Response(404, "not found"))
        /\ ~Results(probes[s])[1]
        /\ os[s].value.releases = <<>>

\* C8: a generator that yields none or an empty list makes to_os return none
\* with no probe issued, and the distro has no entry in the catalog.
C8_NothingGeneratedNoEntry ==
    \A s \in Src :
        (task[s] = "returned" /\ (~releases[s].some \/ releases[s].value = <<>>)) =>
            /\ os[s] = None
            /\ probes[s] = <<>>
            /\ \A k \in DOMAIN distros : distros[k].name # NAME(s)

\* the catalog is out: one distro yielded an empty list and is absent, the other
\* has its entry
C8_Witness ==
    /\ mainPc = "done"
    /\ \E s \in Src : /\ releases[s] = Some(<<>>)
                      /\ os[s] = None
    /\ Len(distros) = 1

\* the url is one the probe of which ends with a status that invalidates it
InvalidUrl(u) ==
    /\ Parsed(u)
    /\ Send(ParseUrl(u).value).kind = "response"
    /\ BadStatus(Send(ParseUrl(u).value).status)
Validates(r) == \A k \in DOMAIN RecordUrls(r) : ~InvalidUrl(RecordUrls(r)[k])

\* C9: the entry retains exactly the Configs whose own urls all validated, in
\* the order the generator gave them.
C9_RetainedSubsequence ==
    \A s \in Src :
        os[s].some => os[s].value.releases = SelectSeq(releases[s].value, Validates)

\* an invalid Config followed by a valid one: only the second is retained
C9_Witness ==
    \E s \in Src :
        /\ os[s].some
        /\ Len(releases[s].value) >= 2
        /\ ~Validates(releases[s].value[1])
        /\ Validates(releases[s].value[2])
        /\ Head(os[s].value.releases) = releases[s].value[2]

\* C10: capture_page returns the text iff the response has a success status and
\* a body that is not empty; an empty body and every other status give none.
C10_CapturePageOutput ==
    \A s \in Src :
        GotStatus(fetch[s]) =>
            LET r == fetch[s].response.value IN
            /\ (r.status \in 200..299 /\ r.body # "") => fetch[s].output = Some(r.body)
            /\ (r.status \in 200..299 /\ r.body = "") => fetch[s].output = None
            /\ (r.status \notin 200..299) => fetch[s].output = None

\* one capture_page returned none for an empty body, another returned the text
C10_Witness ==
    /\ \E s \in Src : /\ GotStatus(fetch[s])
                      /\ fetch[s].response.value = Response(200, "")
                      /\ fetch[s].output = None
    /\ \E s \in Src : /\ GotStatus(fetch[s])
                      /\ fetch[s].output = Some("text")

\* every capture_page call and link probe of the state
Calls == { fetch[s] : s \in Src } \cup { ProbeAt(id) : id \in ProbeIds }

\* C11: capture_page on a string that does not parse as a url returns none at
\* once: it holds no permit, has issued no GET and has no response.
C11_UnparsableReturnsNone ==
    \A s \in Src :
        (fetch[s].pc # "idle" /\ fetch[s].input.scheme = "") =>
            /\ fetch[s].pc = "done"
            /\ fetch[s].output = None
            /\ fetch[s].url_permit = None /\ ~fetch[s].permit
            /\ fetch[s].attempts = 0 /\ fetch[s].response = None

\* capture_page("sourceforge.net/ok") has returned none and both pools are full
C11_Witness ==
    /\ \E s \in Src : /\ fetch[s].input = Input("", "sourceforge.net", "/ok")
                      /\ fetch[s].pc = "done"
                      /\ fetch[s].output = None
    /\ semaphore = GlobalPermits
    /\ url_permits = InitUrlPermits

\* a transport error or a 5xx status
ErrorOr5xx(response) == response.kind = "error" \/ response.status \in 500..599
\* a transport error, a 5xx status, 408 or 429
ErrorOr5xxOr408Or429(response) ==
    ErrorOr5xx(response) \/ response.status = 408 \/ response.status = 429

\* C12: a GET is retried only after a transport error or a 5xx response; a call
\* that ends with any other non-success status (404, 429) issued exactly one
\* request.
C12_RetryOnlyOnErrorOr5xx ==
    \A c \in Calls :
        /\ \A k \in DOMAIN c.retried : ErrorOr5xx(c.retried[k])
        /\ (GotStatus(c) /\ c.response.value.status \notin 200..299
                         /\ ~ErrorOr5xx(c.response.value))
              => c.attempts = 1

\* C12, amended: a GET is retried only after a transport error or a 5xx, 408 or
\* 429 response; a call that ends with any other non-success status (404) issued
\* exactly one request, and capture_page returns none on it.
C12_RetryOnlyOnTransient ==
    /\ \A c \in Calls :
          /\ \A k \in DOMAIN c.retried : ErrorOr5xxOr408Or429(c.retried[k])
          /\ (GotStatus(c) /\ c.response.value.status \notin 200..299
                           /\ ~ErrorOr5xxOr408Or429(c.response.value))
                => c.attempts = 1 /\ c.retried = <<>>
    /\ \A s \in Src :
          (GotStatus(fetch[s]) /\ fetch[s].response.value.status = 404)
              => fetch[s].output = None

\* a probe ended on 404 after one GET while a GET answered by 429 was retried
C12_Witness ==
    /\ \E c \in Calls : /\ GotStatus(c)
                        /\ c.response.value.status = 404
                        /\ c.attempts = 1
    /\ \E c \in Calls : /\ c.attempts > 1
                        /\ c.retried[1] = Response(429, "slow down")

\* C13: when the first two GETs of a url fail transiently (transport error or
\* 5xx) and the third is answered by a success status with a body that is not
\* empty, capture_page returns that text, having issued three GETs.
C13_TransientThenSuccess ==
    \A s \in Src :
        LET c == fetch[s]
            url == ParseUrl(c.input).value
        IN  (/\ c.pc = "done"
             /\ Parsed(c.input)
             /\ ErrorOr5xx(Get(url, 1))
             /\ ErrorOr5xx(Get(url, 2))
             /\ Get(url, 3).kind = "response"
             /\ Get(url, 3).status \in 200..299
             /\ Get(url, 3).body # "")
                => c.output = Some(Get(url, 3).body) /\ c.attempts = 3

\* capture_page of a url answered by a transport error, 503, then 200 returned
\* the text
C13_Witness ==
    \E s \in Src :
        /\ fetch[s].pc = "done"
        /\ fetch[s].retried = <<TransportError, Response(503, "busy")>>
        /\ fetch[s].response = Some(Response(200, "text"))
        /\ fetch[s].output = Some("text")

\* C14: a capture_page call or a link probe issues at most 3 GETs.
C14_AtMostThreeAttempts == \A c \in Calls : c.attempts <= 3

\* C14, amended: a capture_page call or a link probe issues at most 4 GETs (the
\* first and max_retries retries) and then returns; a capture_page whose every
\* GET fails transiently returns none after the fourth.
C14_AtMostFourAttempts ==
    /\ \A c \in Calls : c.attempts <= max_retries + 1
                        /\ Len(c.retried) <= max_retries
    /\ \A s \in Src :
          LET c == fetch[s]
              url == ParseUrl(c.input).value
          IN  (/\ c.pc = "done"
               /\ Parsed(c.input)
               /\ \A n \in 1..(max_retries + 1) : ErrorOr5xx(Get(url, n)))
                  => c.attempts = max_retries + 1 /\ c.output = None

\* capture_page of a url that always answers 500 returned none after four GETs
C14_Witness ==
    \E s \in Src :
        /\ fetch[s].pc = "done"
        /\ fetch[s].response = Some(Response(500, "oops"))
        /\ fetch[s].attempts = 4
        /\ fetch[s].output = None

\* the call is to a host with a registered pool
ToRegisteredHost(c) == c.input.scheme # "" /\ c.input.host \in RegisteredHosts

\* C15: a call to a host with a registered pool takes the host permit first and
\* the global permit second and has a request out only while it holds both; a
\* call to any other host holds only the global permit; no request is out
\* without the global permit.
C15_HostPermitThenGlobal ==
    \A c \in Calls :
        /\ c.pc = "start" => c.url_permit = None /\ ~c.permit /\ c.attempts = 0
        /\ c.pc = "url_permit" => ToRegisteredHost(c) /\ ~c.permit /\ c.attempts = 0
        /\ c.pc = "send" => c.permit /\ c.attempts >= 1
        /\ c.permit => c.pc = "send"
        /\ (c.permit /\ ToRegisteredHost(c)) => c.url_permit = Some(c.input.host)
        /\ ~ToRegisteredHost(c) => c.url_permit = None

\* one probe of sourceforge.net holds the host permit and waits for the global
\* one, another has its request out holding both, and a capture_page of another
\* host has its request out holding the global permit alone
C15_Witness ==
    /\ \E c \in Calls : /\ c.pc = "url_permit"
                        /\ c.url_permit = Some("sourceforge.net")
                        /\ ~c.permit
    /\ \E c \in Calls : /\ c.pc = "send"
                        /\ c.url_permit = Some("sourceforge.net")
                        /\ c.permit
    /\ \E c \in Calls : /\ c.pc = "send"
                        /\ c.input.host = "download.freebsd.org"
                        /\ c.url_permit = None
                        /\ c.permit
    /\ semaphore = GlobalPermits - 2
    /\ url_permits["sourceforge.net"] = SourceforgePermits - 2

\* the call is suspended in an acquire().await
Waiting(c) == c.pc \in {"start", "url_permit"}

\* C16: a full pool is backpressure, not an error.  A capture_page call that
\* waits for a permit has issued no request and has not returned; every call
\* that waits is eventually admitted and returns with the answer to its request;
\* a call that returned none either had no url to ask or got its answer.
C16_BackpressureNotError ==
    /\ [](\A s \in Src :
            /\ Waiting(fetch[s]) => /\ fetch[s].attempts = 0
                                    /\ fetch[s].response = None
                                    /\ fetch[s].output = None
            /\ (fetch[s].pc = "done" /\ fetch[s].input.scheme # ""
                                     /\ fetch[s].input.host # "")
                  => fetch[s].response.some /\ fetch[s].attempts >= 1)
    /\ \A s \in Src :
          Waiting(fetch[s]) ~> (fetch[s].pc = "done" /\ fetch[s].response.some)

\* a capture_page of sourceforge.net holds the last host permit and waits for the
\* global permit: both pools are exhausted
C16_Witness ==
    /\ \E s \in Src : fetch[s].pc = "url_permit" /\ fetch[s].attempts = 0
    /\ semaphore = 0
    /\ url_permits["sourceforge.net"] = 0
    /\ crowd.permit > 0

\* the outputs of the futures, in their order
UnitOutputs == [i \in 1..Len(units) |-> units[i].output]
\* the futures that resolved to Some, and the items they found
SomeUnits == { i \in 1..Len(units) : units[i].output.some }
ItemsOf(i) == { units[i].output.value[k] : k \in 1..Len(units[i].output.value) }
AllItems == UNION { ItemsOf(i) : i \in SomeUnits }

\* at amount 0 the outputs as they are; at amount 1 one Vec per future that
\* resolved to Some, empty ones included; at amount 2 every item of every such
\* Vec, once, and no Vec
RemovesLevels ==
    /\ flatten_amount = 0 => joined.value = UnitOutputs
    /\ flatten_amount = 1 =>
          /\ Len(joined.value) = Cardinality(SomeUnits)
          /\ \A k \in 1..Len(joined.value) :
                \E i \in SomeUnits : units[i].output.value = joined.value[k]
          /\ \A i \in SomeUnits :
                \E k \in 1..Len(joined.value) : units[i].output.value = joined.value[k]
    /\ flatten_amount = 2 =>
          /\ \A k \in 1..Len(joined.value) : joined.value[k] # <<>>
          /\ Len(joined.value) = Cardinality(AllItems)
          /\ { joined.value[k] : k \in 1..Len(joined.value) } = AllItems

\* the futures resolved to [Some([1,2]), None, Some([])]
ExampleUnits ==
    UnitOutputs = <<Some(<<Item(1, 1), Item(1, 2)>>), None, Some(<<>>)>>

\* C17: join_futures!(units, N) removes exactly N levels of Option/Vec nesting
\* from the joined outputs, and [Some([1,2]), None, Some([])] at depth 1 gives
\* [1,2]: the two items and no empty value.
C17_FlattenDepthOne ==
    joined.some =>
        /\ RemovesLevels
        /\ (ExampleUnits /\ flatten_amount = 1)
              => /\ \A k \in 1..Len(joined.value) : joined.value[k] # <<>>
                 /\ joined.value = <<Item(1, 1), Item(1, 2)>>

\* C17, amended: join_futures!(units, N) removes exactly N levels of Option/Vec
\* nesting from the joined outputs, discarding None and empty values at each
\* removed level and removing no further level; [Some([1,2]), None, Some([])]
\* gives [1,2] at depth 2 and [[1,2],[]] at depth 1.
C17_FlattenDepth ==
    joined.some =>
        /\ RemovesLevels
        /\ (ExampleUnits /\ flatten_amount = 2)
              => joined.value = <<Item(1, 1), Item(1, 2)>>
        /\ (ExampleUnits /\ flatten_amount = 1)
              => joined.value = << <<Item(1, 1), Item(1, 2)>>, <<>> >>

\* the example joined at depth 2
C17_Witness ==
    /\ ExampleUnits
    /\ flatten_amount = 2
    /\ joined = Some(<<Item(1, 1), Item(1, 2)>>)

\* item x comes before item y: an earlier future's, or the same future's and
\* found earlier
Before(x, y) == x.unit < y.unit \/ (x.unit = y.unit /\ x.k < y.k)

\* C18: the joined sequence is in the order of the futures, and within one
\* future in the order it found its items, whatever the order the futures
\* resolved in.
C18_UnitOrderKept ==
    joined.some =>
        /\ flatten_amount = 0 => \A i \in 1..Len(units) : joined.value[i] = units[i].output
        /\ flatten_amount = 1 =>
              \A p, q \in 1..Len(joined.value) :
                  (p < q /\ joined.value[p] # <<>> /\ joined.value[q] # <<>>)
                      => joined.value[p][1].unit < joined.value[q][1].unit
        /\ flatten_amount = 1 =>
              \A p \in 1..Len(joined.value) : \A a, b \in 1..Len(joined.value[p]) :
                  a < b => Before(joined.value[p][a], joined.value[p][b])
        /\ flatten_amount = 2 =>
              \A p, q \in 1..Len(joined.value) :
                  p < q => Before(joined.value[p], joined.value[q])

\* three futures resolved last first, each with two items: the items are joined
\* first future first
C18_Witness ==
    /\ finished = <<3, 2, 1>>
    /\ flatten_amount = 2
    /\ joined = Some(<<Item(1, 1), Item(1, 2), Item(2, 1), Item(2, 2),
                       Item(3, 1), Item(3, 2)>>)

\* C19: a fan-out returns only after every one of its units has completed,
\* whether the unit yielded a value or none: while a probe of all_valid is still
\* running to_os has returned nothing, and once it has returned every url was
\* probed to the end, the urls after an invalid one included.
C19_AllUnitsAwaited ==
    \A s \in Src :
        /\ (\E i \in DOMAIN probes[s] : \E j \in DOMAIN probes[s][i] :
                probes[s][i][j].pc # "done")
              => task[s] = "validate" /\ os[s] = None
        /\ (task[s] = "returned" /\ os[s].some) =>
              \A i \in DOMAIN probes[s] : \A j \in DOMAIN probes[s][i] :
                  /\ probes[s][i][j].pc = "done"
                  /\ (probes[s][i][j].input.scheme # "" /\ probes[s][i][j].input.host # "")
                        => /\ probes[s][i][j].response.some
                           /\ probes[s][i][j].attempts >= 1

\* a record of three urls: the first was found invalid (404), the second ended in
\* a transport error, and the third was still probed and answered
C19_Witness ==
    \E s \in Src :
        /\ task[s] = "returned" /\ os[s].some
        /\ Len(probes[s]) = 1 /\ Len(probes[s][1]) = 3
        /\ probes[s][1][1].output = Some(FALSE)
        /\ probes[s][1][2].response = Some(TransportError)
        /\ probes[s][1][2].output = None
        /\ probes[s][1][3].response = Some(Response(200, "text"))
        /\ probes[s][1][3].output = Some(TRUE)

\* the urls of the web sources of a list of the Config
WebUrlsIn(list) ==
    IF list.some
    THEN { list.value[k].url : k \in { x \in 1..Len(list.value) : list.value[x].kind = "Web" } }
    ELSE {}
\* the urls of the web sources of its disk images
WebUrlsOfDisks(disks) ==
    IF disks.some
    THEN { disks.value[k].source.url :
             k \in { x \in 1..Len(disks.value) : disks.value[x].source.kind = "Web" } }
    ELSE {}
\* the references of its sources that are not web sources
OtherRefs(r) ==
    UNION { IF list.some
            THEN { list.value[k].url :
                     k \in { x \in 1..Len(list.value) : list.value[x].kind # "Web" } }
            ELSE {} : list \in {r.iso, r.img, r.fixed_iso, r.floppy} }
      \cup (IF r.disk_images.some
            THEN { r.disk_images.value[k].source.url :
                     k \in { x \in 1..Len(r.disk_images.value) :
                               r.disk_images.value[x].source.kind # "Web" } }
            ELSE {})
WebUrls(r) ==
    WebUrlsIn(r.iso) \cup WebUrlsIn(r.img) \cup WebUrlsIn(r.fixed_iso)
      \cup WebUrlsIn(r.floppy) \cup WebUrlsOfDisks(r.disk_images)

\* C20: the urls probed for a Config are exactly the urls of the web sources of
\* its iso, img, fixed_iso and floppy lists and of its disk images; a source
\* that is not a web source is never probed, and the Config is retained iff no
\* web url of it was found invalid.
C20_ProbedUrlsAreWebUrls ==
    \A s \in Src : \A i \in DOMAIN probes[s] :
        LET r == releases[s].value[i]
            probed == { probes[s][i][j].input : j \in DOMAIN probes[s][i] }
        IN  /\ probed = WebUrls(r)
            /\ Len(probes[s][i]) = Cardinality(WebUrls(r))
            /\ probed \cap OtherRefs(r) = {}
            /\ (task[s] = "returned" /\ os[s].some) =>
                  (Retained(s, i) <=>
                      \A j \in DOMAIN probes[s][i] : ~ClassifiedInvalid(probes[s][i][j]))

\* a Config with an image as its iso and as its disk, and web sources as its
\* fixed_iso and its floppy: the two urls were probed and the Config is retained
C20_Witness ==
    \E s \in Src :
        /\ task[s] = "returned" /\ os[s].some
        /\ releases[s].value[1].iso = Some(<<DockerSource(Image)>>)
        /\ releases[s].value[1].disk_images = Some(<<Disk(DockerSource(Image))>>)
        /\ Len(probes[s][1]) = 2
        /\ probes[s][1][1].input = Web("download.freebsd.org", "/empty")
        /\ probes[s][1][2].input = Web("download.freebsd.org", "/throttled")
        /\ probes[s][1][1].response.some /\ probes[s][1][2].response.some
        /\ Retained(s, 1)

(***************************************************************************)
(* Termination (main.rs 12-72)                                             *)
(***************************************************************************)
\* every call of the run has returned and given its permits back
Quiescent ==
    /\ \A s \in Src : /\ task[s] = "returned"
                      /\ fetch[s].pc \in {"idle", "done"}
                      /\ AllDone(probes[s])
    /\ semaphore = GlobalPermits
    /\ url_permits = InitUrlPermits

\* C21: when every request gets its answer and the runtime keeps polling the
\* tasks that can run, the run terminates: every distro's to_os returns (with an
\* entry or with none), main joins them and holds the catalog, and nothing is
\* left running, whatever pages failed, urls were invalid or generators
\* yielded nothing.
C21_RunTerminates ==
    <>[](/\ mainPc = "done"
         /\ Quiescent
         /\ Len(distros) = Cardinality({ s \in Src : os[s].some }))

\* the run has ended although one generator yielded none and a Config of the
\* other distro was dropped for an invalid url
C21_Witness ==
    /\ mainPc = "done"
    /\ Quiescent
    /\ \E s \in Src : releases[s] = None /\ os[s] = None
    /\ \E s \in Src : /\ os[s].some
                      /\ releases[s].some
                      /\ Len(os[s].value.releases) < Len(releases[s].value)
                      /\ \E i \in DOMAIN probes[s] : \E j \in DOMAIN probes[s][i] :
                            probes[s][i][j].output = Some(FALSE)

(***************************************************************************)
(* Isolation of a failed distro (main.rs 55-61)                            *)
(***************************************************************************)
\* the generator of distro s returned None, or every Config it returned has an
\* invalid url
FailedSource(s) ==
    /\ task[s] = "returned"
    /\ \/ releases[s] = None
       \/ /\ releases[s].some /\ releases[s].value # <<>>
          /\ \A i \in DOMAIN probes[s] : ~AllValid(probes[s][i])

\* the names of the entries of the catalog
CatalogNames == { distros[k].name : k \in DOMAIN distros }

\* the catalog holds the entry to_os returned for distro s, its releases sorted
EmittedUnchanged(s) ==
    \E k \in DOMAIN distros :
        /\ distros[k].name = NAME(s)
        /\ distros[k].releases \in SortedByRelease(os[s].value.releases)

\* C22: a distro that failed is the only one missing from the catalog: it has
\* no entry, the run still ends, and the entry of every other distro that
\* returned one is in the catalog as to_os returned it.
C22_FailureRemovesOnlyThatSource ==
    mainPc = "done" =>
        \A s \in Src :
            FailedSource(s) =>
                /\ \A t \in Src \ {s} : os[t].some => EmittedUnchanged(t)
                /\ NAME(s) \notin CatalogNames

\* the part of C22 that the code keeps: whatever a distro did, every entry that
\* was returned is in the catalog, and a distro whose generator returned None
\* has none
IsolationOfOthers ==
    mainPc = "done" =>
        \A s \in Src :
            /\ os[s].some => EmittedUnchanged(s)
            /\ releases[s] = None => NAME(s) \notin CatalogNames

(***************************************************************************)
(* Spawn all, then join all (main.rs 14-61)                                *)
(***************************************************************************)
\* the number of entries of the catalog that bear the name of distro s
EntriesOf(s) == Cardinality({ k \in DOMAIN distros : distros[k].name = NAME(s) })

\* a call of distro s is in flight or waits for a permit
Running(s) ==
    \/ fetch[s].pc \in {"start", "url_permit", "send"}
    \/ \E i \in DOMAIN probes[s] : \E j \in DOMAIN probes[s][i] :
          probes[s][i][j].pc \in {"start", "url_permit", "send"}

\* C23: main awaits the handles only once every distro has been spawned, so
\* the distros' to_os run side by side; the catalog stays empty until every
\* to_os has returned, and it then holds one entry for each distro whose to_os
\* returned one and none for the others.
C23_SpawnAllThenJoinAll ==
    /\ mainPc \in {"join", "done"} =>
          /\ Len(handles) = Len(Sources)
          /\ \A s \in Src : task[s] # "unspawned" /\ \E k \in DOMAIN handles : handles[k] = s
    /\ mainPc # "done" => distros = <<>>
    /\ mainPc = "done" =>
          /\ \A s \in Src : /\ task[s] = "returned"
                            /\ EntriesOf(s) = IF os[s].some THEN 1 ELSE 0
          /\ Len(distros) = Cardinality({ s \in Src : os[s].some })

\* main is waiting at the join while a request of each of the two distros is
\* in flight; one of them validates already while the other still generates
C23_Witness ==
    /\ mainPc = "join"
    /\ \A s \in Src : Running(s)
    /\ \E s, t \in Src : /\ fetch[s].pc = "send"
                         /\ task[t] = "validate"
                         /\ \E i \in DOMAIN probes[t] : \E j \in DOMAIN probes[t][i] :
                               probes[t][i][j].pc = "send"

\* the run has ended with one entry in the catalog for two distros: the other
\* to_os returned none
C23_Assembled ==
    /\ mainPc = "done"
    /\ Len(distros) = 1
    /\ \E s \in Src : os[s] = None /\ EntriesOf(s) = 0

(***************************************************************************)
(* The life of a distro and of its Configs (store_data.rs 23-68)           *)
(***************************************************************************)
SourceState(s) ==
    CASE task[s] = "unspawned" -> "Pending"
      [] task[s] = "generate"  -> "Generating"
      [] task[s] = "validate"  -> "Validating"
      [] task[s] = "returned"  -> IF os[s].some THEN "Assembled" ELSE "Dropped"

\* the Configs of distro s exist once its generator has returned them
Records(s) == IF releases[s].some THEN DOMAIN releases[s].value ELSE {}

RecordState(s, i) ==
    IF task[s] = "validate" THEN "Validating"
    ELSE IF os[s].some /\ Retained(s, i) THEN "Retained" ELSE "Dropped"

SourceTransitions ==
    { <<"Pending", "Generating">>,
      <<"Generating", "Dropped">>, <<"Generating", "Validating">>,
      <<"Validating", "Assembled">>, <<"Validating", "Dropped">> }

\* a validation that had no request to wait for: to_os goes from its generator's
\* return to its own return without being suspended
ValidatedAtOnce(s) ==
    /\ SourceState(s) = "Generating" /\ SourceState(s)' = "Assembled"
    /\ \A i \in DOMAIN probes'[s] : \A j \in DOMAIN probes'[s][i] :
          probes'[s][i][j].attempts = 0 /\ ~Parsed(probes'[s][i][j].input)

SourceStep(s) ==
    /\ SourceState(s)' # SourceState(s) =>
          \/ <<SourceState(s), SourceState(s)'>> \in SourceTransitions
          \/ ValidatedAtOnce(s)
    /\ (SourceState(s) = "Generating" /\ SourceState(s)' = "Dropped") =>
          NoReleases(releases'[s])
    /\ SourceState(s) \in {"Assembled", "Dropped"} =>
          /\ SourceState(s)' = SourceState(s)
          /\ os'[s] = os[s] /\ releases'[s] = releases[s] /\ probes'[s] = probes[s]

RecordStep(s) ==
    /\ Records(s) # {} => Records(s)' = Records(s)
    /\ \A i \in Records(s) :
          RecordState(s, i) \in {"Retained", "Dropped"} =>
              RecordState(s, i)' = RecordState(s, i)
    /\ \A i \in Records(s)' \ Records(s) :
          RecordState(s, i)' = "Validating" \/ ValidatedAtOnce(s)

\* C24: a distro goes Pending, Generating, then Dropped when nothing was
\* generated or Validating and then Assembled or Dropped; a Config goes
\* Generated, Validating, then Retained or Dropped.  Validation of a distro's
\* Configs starts only with what its generator returned, a Config is retained
\* only when every probe of the distro has returned and its own urls were all
\* valid, and Retained, Dropped and Assembled are never left.
C24_Lifecycle ==
    /\ [](\A s \in Src :
            /\ probes[s] # <<>> =>
                  /\ SourceState(s) \in {"Validating", "Assembled", "Dropped"}
                  /\ releases[s].some /\ Len(probes[s]) = Len(releases[s].value)
            /\ SourceState(s) \in {"Pending", "Generating"} =>
                  Records(s) = {} /\ os[s] = None
            /\ \A i \in Records(s) :
                  RecordState(s, i) = "Retained" =>
                      AllDone(probes[s]) /\ AllValid(probes[s][i]))
    /\ [][\A s \in Src : SourceStep(s) /\ RecordStep(s)]_vars

\* freebsd is Assembled with its first Config Dropped and its second Retained,
\* after both were probed, while antix was Dropped for want of Configs
C24_Witness ==
    \E s, t \in Src :
        /\ SourceState(s) = "Assembled"
        /\ Len(releases[s].value) = 2
        /\ RecordState(s, 1) = "Dropped" /\ RecordState(s, 2) = "Retained"
        /\ \A i \in {1, 2} : probes[s][i] # <<>> /\ probes[s][i][1].attempts >= 1
        /\ SourceState(t) = "Dropped" /\ releases[t] = Some(<<>>)

(***************************************************************************)
(* Determinism (store_data.rs 23-68, utils.rs 38-69)                       *)
(***************************************************************************)
\* the verdict on url u that follows from the answers the transport gives for
\* it, whenever and in whatever order it is asked
VerdictOf(u) ==
    IF ~Parsed(u) THEN None
    ELSE LET response == Send(ParseUrl(u).value)
         IN  IF response.kind = "error" THEN None
             ELSE Some(response.status \in 200..299 \/ response.status = 429)

\* the entry that follows from what the generator of distro s returned
OutcomeOf(s) ==
    IF ~releases[s].some \/ releases[s].value = <<>> THEN None
    ELSE Some([name |-> NAME(s),
               releases |-> SelectSeq(releases[s].value,
                                LAMBDA r : \A k \in DOMAIN RecordUrls(r) :
                                              VerdictOf(RecordUrls(r)[k]) # Some(FALSE))])

\* C25: the result of a run is a function of what the generators returned and
\* of the transport's answers, not of the schedule: a url gets the same verdict
\* from every probe of it, every to_os returns the entry that follows from its
\* generator's Configs, and the catalog holds the entries of exactly the distros
\* for which one follows, with the same releases.
C25_Deterministic ==
    /\ \A p \in ProbeIds :
          ProbeAt(p).pc = "done" => ProbeAt(p).output = VerdictOf(ProbeAt(p).input)
    /\ \A s \in Src : task[s] = "returned" => os[s] = OutcomeOf(s)
    /\ mainPc = "done" =>
          /\ CatalogNames = { NAME(s) : s \in { t \in Src : OutcomeOf(t).some } }
          /\ \A s \in Src : OutcomeOf(s).some => EmittedUnchanged(s)
          /\ Len(distros) = Cardinality(CatalogNames)

\* the same Config twice in one run, probed in either order: both probes of
\* its url were answered 404 and neither copy is retained, while the other
\* distro's entry has a Config
C25_Witness ==
    /\ mainPc = "done"
    /\ \E s \in Src :
          /\ releases[s].some
          /\ Len(releases[s].value) = 2
          /\ releases[s].value[1] = releases[s].value[2]
          /\ \A i \in {1, 2} : /\ probes[s][i] # <<>>
                               /\ probes[s][i][1].output = Some(FALSE)
          /\ os[s] = Some([name |-> NAME(s), releases |-> <<>>])
    /\ \E s \in Src : os[s].some /\ os[s].value.releases # <<>>

(***************************************************************************)
(* No ceiling in join_futures! (join_futures/src/lib.rs 4-30)              *)
(***************************************************************************)
\* the futures of the fan-out that have started and not resolved
RunningUnits == Cardinality({ i \in 1..Len(units) : units[i].started /\ ~units[i].done })

\* C27: a fan-out can be capped: with a ceiling below the number of its units,
\* the units that have started and not completed stay within the ceiling, so
\* they are never all running at once.
C27_RunningBelowUnits ==
    Len(units) > 1 => RunningUnits < Len(units)

\* C27, amended: join_futures! has no ceiling: its join_all starts every unit
\* of the fan-out together, no unit waits for another to complete, and the
\* units running are all those that have not resolved yet.
C27_AllUnitsStartedTogether ==
    /\ (\E i \in 1..Len(units) : units[i].started) =>
          /\ \A i \in 1..Len(units) : units[i].started
          /\ RunningUnits = Len(units) - Len(finished)
    /\ \A i \in 1..Len(units) : units[i].done => units[i].started
    /\ joined.some => RunningUnits = 0

\* the largest fan-out has all its units running and none resolved
C27_Witness ==
    /\ Len(units) = MaxUnits
    /\ RunningUnits = MaxUnits
    /\ finished = <<>>
    /\ joined = None

(***************************************************************************)
(* No deadlock on the permits (utils.rs 13-69)                             *)
(***************************************************************************)
\* the probes of the Configs being validated
Probes == { ProbeAt(p) : p \in ProbeIds }

\* C28: permits are taken in one order, the host's and then the global one: a
\* call that waits holds no global permit, and the only permit a waiting call
\* can hold is that of its host while it waits for the global one; a call that
\* holds the global permit has its request out and waits for no permit.  So no
\* wait is circular, and with the probes and the crowd contending for both
\* pools every probe that waits for a permit gets it, as long as every request
\* that is out returns.
C28_NoDeadlock ==
    /\ [](\A c \in Probes :
            /\ Waiting(c) => ~c.permit
            /\ (Waiting(c) /\ c.url_permit.some) =>
                  c.pc = "url_permit" /\ c.url_permit = HostPool(c.input)
            /\ c.permit => c.pc = "send")
    /\ \A j \in 1..Len(ContendUrls) :
          (probes[1] # <<>> /\ Waiting(probes[1][1][j]))
              ~> (probes[1][1][j].pc = "send" /\ probes[1][1][j].permit)

\* both pools are exhausted: the probe of sourceforge.net holds a host permit
\* and waits for the global one, as do the crowd's other calls to that host,
\* and every global permit is held by a call of the crowd to another host
C28_Witness ==
    /\ semaphore = 0
    /\ url_permits["sourceforge.net"] = 0
    /\ \E c \in Probes :
          c.pc = "url_permit" /\ c.url_permit = Some("sourceforge.net") /\ ~c.permit
    /\ crowd.url_permit = SourceforgePermits - 1
    /\ crowd.permit = GlobalPermits

(***************************************************************************)
(* Urls all_valid cannot ask (utils.rs 40-41, 68)                          *)
(***************************************************************************)
\* the probes that have a request out
ProbesSending == { p \in ProbeIds : ProbeAt(p).pc = "send" }

\* C29: in all_valid a url that does not parse, or has no host, is never asked:
\* its probe returns at once with no verdict, no permit and no request, and the
\* permits out are those of the probes that have a request out.  It is not a
\* failure: a Config each url of which is such a url or was answered with a
\* success status or 429 is retained.
C29_UnaskableUrlsSkipped ==
    /\ \A p \in ProbeIds :
          LET c == ProbeAt(p) IN
          ~Parsed(c.input) =>
              /\ c.pc = "done" /\ c.output = None
              /\ c.attempts = 0 /\ c.retried = <<>> /\ c.response = None
              /\ ~c.permit /\ c.url_permit = None
    /\ semaphore = GlobalPermits - Cardinality(ProbesSending)
    /\ \A s \in Src : \A i \in DOMAIN probes[s] :
          (/\ task[s] = "returned"
           /\ \A j \in DOMAIN probes[s][i] :
                 LET c == probes[s][i][j] IN
                 \/ ~Parsed(c.input)
                 \/ GotStatus(c) /\ ~BadStatus(c.response.value.status))
              => Results(probes[s])[i] /\ os[s].some /\ Retained(s, i)

\* a Config with a url that was answered 200, a url that does not parse and a
\* url without a host: only the first was asked and the Config is retained
C29_Witness ==
    \E s \in Src :
        /\ task[s] = "returned" /\ os[s].some
        /\ Len(probes[s]) = 1 /\ Len(probes[s][1]) = 3
        /\ probes[s][1][1].response = Some(Response(200, "text"))
        /\ probes[s][1][2].input = Input("", "", "releases/14.1")
        /\ probes[s][1][3].input = Input("data", "", "text")
        /\ \A j \in {2, 3} : probes[s][1][j].attempts = 0 /\ probes[s][1][j].output = None
        /\ Retained(s, 1)

(***************************************************************************)
(* The host of a pool is matched as a whole (utils.rs 15, 41, 93)          *)
(***************************************************************************)
\* the probes to host h that hold a permit of some host pool
HostPermitHolders(h) ==
    { p \in ProbeIds : ProbeAt(p).input.host = h /\ ProbeAt(p).url_permit.some }

\* C30: only a call whose url has exactly the host a pool is registered for is
\* admitted to that pool: a call to any other host, a subdomain of
\* sourceforge.net included, never holds a host permit and has its request out
\* with the global permit alone, and the permits out of a host's pool are those
\* of the calls to that very host.
C30_ExactHostMatch ==
    /\ \A p \in ProbeIds :
          LET c == ProbeAt(p) IN
          /\ c.url_permit.some =>
                c.input.host \in RegisteredHosts /\ c.url_permit = Some(c.input.host)
          /\ (c.pc = "send" /\ c.input.host \notin RegisteredHosts) =>
                c.permit /\ c.url_permit = None
          /\ (c.pc = "send" /\ c.input.host \in RegisteredHosts) =>
                c.permit /\ c.url_permit = Some(c.input.host)
    /\ \A h \in RegisteredHosts :
          /\ url_permits[h] = InitUrlPermits[h] - Cardinality(HostPermitHolders(h))
          /\ HostPermitHolders("downloads." \o h) = {}

\* the requests to sourceforge.net and to downloads.sourceforge.net are both
\* out: two global permits and one permit of sourceforge.net's pool are taken
C30_Witness ==
    /\ \E p, q \in ProbeIds :
          /\ ProbeAt(p).input.host = "sourceforge.net"
          /\ ProbeAt(p).pc = "send" /\ ProbeAt(p).url_permit = Some("sourceforge.net")
          /\ ProbeAt(q).input.host = "downloads.sourceforge.net"
          /\ ProbeAt(q).pc = "send" /\ ProbeAt(q).url_permit = None /\ ProbeAt(q).permit
    /\ semaphore = GlobalPermits - 2
    /\ url_permits["sourceforge.net"] = SourceforgePermits - 1

====
